---- MODULE Spec2Model ----
(***************************************************************************)
(* NanoQuant: the scale calibration routine custom_quantize_layer          *)
(* (src/custom_quant.py) and the sparsity pruning operators                *)
(* apply_sparse_pruning / remove_pruning / prune_model (src/pruning.py),   *)
(* acting on the weight tensors of one small model.                        *)
(*                                                                         *)
(* Tensor elements are IEEE-like values <<n, d>>: a reduced fraction n/d   *)
(* with d > 0, or <<1,0>> (+inf), <<-1,0>> (-inf), <<0,0>> (NaN).          *)
(* Tensors are flattened to sequences; the length stands for the shape.    *)
(***************************************************************************)
EXTENDS Integers, Sequences, FiniteSets, TLC

VARIABLES weight, bias, weight_orig, weight_mask, pc, qf, pf, ret, lastApply, ncalls, init0, fq, tr

vars == <<weight, bias, weight_orig, weight_mask, pc, qf, pf, ret, lastApply, ncalls, init0, fq, tr>>

(* ------------------------------ bounds --------------------------------- *)
\* number of elements of fc1.weight
WLen == 3
\* initial weight elements are the integers -MaxW..MaxW
MaxW == 1
\* num_levels ranges over MinLevels..MaxLevels
MinLevels == 2
MaxLevels == 4
\* epochs ranges over 0..MaxEpochs
MaxEpochs == 2
\* amount ranges over 0/AmountDen .. AmountDen/AmountDen
AmountDen == 2
\* number of top-level calls in one run
MaxCalls == 3
\* numerators and denominators of the scales tried on the fake-quantization expression
MaxScale == 3
\* a batch source yields 0..MaxBatches batches
MaxBatches == 2
\* a batch holds 1..MaxBatchSize samples
MaxBatchSize == 2

(* --------------------------- float arithmetic -------------------------- *)
NaN == <<0, 0>>
PInf == <<1, 0>>
NInf == <<-1, 0>>
Zero == <<0, 1>>
One == <<1, 1>>

IAbs(i) == IF i < 0 THEN -i ELSE i

ISign(i) == IF i < 0 THEN -1 ELSE IF i > 0 THEN 1 ELSE 0

RECURSIVE GCD(_, _)
GCD(a, b) == IF b = 0 THEN a ELSE GCD(b, a % b)

\* the reduced fraction n/d, d > 0
Norm(n, d) == IF n = 0 THEN Zero ELSE LET g == GCD(IAbs(n), d) IN <<n \div g, d \div g>>

FromInt(i) == <<i, 1>>

IsNaN(a) == a = NaN

IsFinite(a) == a[2] > 0

FSign(a) == ISign(a[1])

\* a < b for non-NaN a, b
FLess(a, b) ==
  IF IsFinite(a) /\ IsFinite(b) THEN a[1] * b[2] < b[1] * a[2]
  ELSE IF a = b THEN FALSE
  ELSE IF a = NInf \/ b = PInf THEN TRUE
  ELSE FALSE

FLeq(a, b) == a = b \/ FLess(a, b)

FNeg(a) == <<-a[1], a[2]>>

FAbs(a) == <<IAbs(a[1]), a[2]>>

FMul(a, b) ==
  IF IsNaN(a) \/ IsNaN(b) THEN NaN
  ELSE IF IsFinite(a) /\ IsFinite(b) THEN Norm(a[1] * b[1], a[2] * b[2])
  ELSE IF FSign(a) * FSign(b) = 0 THEN NaN
  ELSE <<FSign(a) * FSign(b), 0>>

FDiv(a, b) ==
  IF IsNaN(a) \/ IsNaN(b) THEN NaN
  ELSE IF IsFinite(a) /\ IsFinite(b)
    THEN IF b[1] = 0
           THEN (IF a[1] = 0 THEN NaN ELSE <<ISign(a[1]), 0>>)
           ELSE Norm(a[1] * b[2] * ISign(b[1]), a[2] * IAbs(b[1]))
  ELSE IF IsFinite(a) THEN Zero
  ELSE IF IsFinite(b) THEN <<FSign(a) * (IF b[1] < 0 THEN -1 ELSE 1), 0>>
  ELSE NaN

FSub(a, b) ==
  IF IsNaN(a) \/ IsNaN(b) THEN NaN
  ELSE IF IsFinite(a) /\ IsFinite(b) THEN Norm(a[1] * b[2] - b[1] * a[2], a[2] * b[2])
  ELSE IF IsFinite(b) THEN a
  ELSE IF IsFinite(a) THEN FNeg(b)
  ELSE IF a = b THEN NaN ELSE a

\* torch.round: to the nearest integer, halves to the even neighbour
RoundHalfEven(n, d) ==
  LET f == n \div d
      r == n - f * d
  IN IF 2 * r < d THEN f
     ELSE IF 2 * r > d THEN f + 1
     ELSE IF f % 2 = 0 THEN f ELSE f + 1

FRound(a) == IF IsFinite(a) THEN FromInt(RoundHalfEven(a[1], a[2])) ELSE a

\* torch.clamp(x, lo, hi) with integer bounds; NaN propagates
FClamp(a, lo, hi) ==
  IF IsNaN(a) THEN NaN
  ELSE IF FLess(FromInt(hi), a) THEN FromInt(hi)
  ELSE IF FLess(a, FromInt(lo)) THEN FromInt(lo)
  ELSE a

RECURSIVE MaxAbsFrom(_, _, _)
MaxAbsFrom(t, i, acc) ==
  IF i > Len(t) THEN acc
  ELSE IF IsNaN(acc) \/ IsNaN(t[i]) THEN NaN
  ELSE MaxAbsFrom(t, i + 1, IF FLess(acc, FAbs(t[i])) THEN FAbs(t[i]) ELSE acc)

\* t.abs().max(); NaN if any element is NaN
MaxAbs(t) == MaxAbsFrom(t, 1, Zero)

(* ------------------------------ the model ------------------------------ *)
\* named_modules() order: the root, then its children
Names == <<"", "fc1", "act", "fc2">>

Mods == {Names[i] : i \in 1..Len(Names)}

\* modules that expose a weight attribute (the nn.Linear children)
WeightMods == {"fc1", "fc2"}

\* hasattr(module, 'weight')
HasAttrWeight(m) == m \in WeightMods

\* the modules the operators are called on directly: a layer with a weight and
\* one without (fc2 is reached through the model-wide sweeps)
DirectModules == {"fc1", "act"}

Fc2Init == <<FromInt(MaxW), FromInt(-1)>>

BiasInit == [m \in Mods |-> IF m \in WeightMods THEN <<One>> ELSE <<>>]

Levels == MinLevels..MaxLevels

EpochChoices == 0..MaxEpochs

LrChoices == {<<1, 1000>>}

\* abstract value of the KL loss of one epoch: 0 (zero) or 1 (positive)
LossChoices == {0, 1}

(* --------------------- custom_quantize_layer ---------------------------- *)
LayerWeightReadableAlways(m) == TRUE

\* layer.weight: the attribute lookup succeeds (it raises AttributeError otherwise)
LayerWeightReadable(m) == m \in WeightMods

\* qmin = -(num_levels // 2)
QMin(L) == -(L \div 2)

\* qmax = num_levels // 2 - 1
QMax(L) == (L \div 2) - 1

\* s = weight.abs().max() / (num_levels / 2 - 1)
InitScale(w, L) == FDiv(MaxAbs(w), Norm(L - 2, 2))

FRoundFloor(a) == IF IsFinite(a) THEN FromInt(a[1] \div a[2]) ELSE a

\* torch.round(x)
TorchRound(a) == FRound(a)

\* torch.clamp(torch.round(w / s), qmin, qmax): the integer level of one element
QuantLevel(w, s, L) == FClamp(TorchRound(FDiv(w, s)), QMin(L), QMax(L))

\* torch.clamp(torch.round(weight / s), qmin, qmax) * s
FakeQuant(t, s, L) == [i \in 1..Len(t) |-> FMul(QuantLevel(t[i], s, L), s)]

\* autograd derivative of torch.round: zero everywhere
RoundGrad == 0

\* autograd derivative of torch.clamp: 1 inside [lo, hi], 0 outside
ClampGrad(a, lo, hi) ==
  IF IsNaN(a) THEN 0
  ELSE IF FLeq(FromInt(lo), a) /\ FLeq(a, FromInt(hi)) THEN 1 ELSE 0

\* d/dw of clamp(round(w / s), qmin, qmax) * s by the chain rule:
\* s * clamp'(round(w/s)) * round'(w/s) * (1/s)
FakeQuantGrad(t, s, L) ==
  [i \in 1..Len(t) |-> ClampGrad(TorchRound(FDiv(t[i], s)), QMin(L), QMax(L)) * RoundGrad]

\* the quantized branch is layer(calibration_input): it reads layer.weight,
\* whose values were written by layer.weight.data.copy_(quantized_weights),
\* a copy outside the autograd graph; loss.backward() leaves s.grad = None (<<>>)
\* whatever the sign g of the loss gradient at the layer's weight
ScaleGrad(g) == <<>>

\* optimizer.step() of Adam on [s]: a parameter whose grad is None (<<>>) is
\* skipped; otherwise the first steps move s by about lr against the gradient sign
OptimizerStep(s, g, lr) ==
  IF g = <<>> THEN s ELSE FSub(s, FMul(lr, FromInt(g[1])))

LoopContinuesUntilZeroLoss(epoch, epochs, loss) == epoch < epochs /\ loss # 0

\* for epoch in range(epochs)
LoopContinues(epoch, epochs, loss) == epoch < epochs

RestoredWeightKeep(original_weight, current) == current

\* layer.weight.data.copy_(original_weight)
RestoredWeight(original_weight, current) == original_weight

QfIdle ==
  [layer |-> "", num_levels |-> 0, lr |-> Zero, epochs |-> 0, weight |-> <<>>,
   s |-> Zero, s0 |-> Zero, epoch |-> 0, quantized_weights |-> <<>>,
   original_weight |-> <<>>, loss |-> 1, kl_losses |-> 0, steps |-> 0,
   writes |-> 0, w0 |-> <<>>, b0 |-> <<>>, prunedMask |-> <<>>]

NoTensors == [m \in Mods |-> <<>>]

PfIdle ==
  [op |-> "", targets |-> {}, amount |-> 0, method |-> "", idx |-> 0,
   w0 |-> NoTensors, m0 |-> NoTensors, pruned |-> {}, masks |-> NoTensors]

RetNone == [op |-> "none", arg |-> "", kind |-> "none", value |-> "", exc |-> "", printed |-> FALSE]

NoGrid == [s |-> Zero, L |-> 0]

ApplyNone ==
  [valid |-> FALSE, module |-> "", amount |-> 0, method |-> "", fresh |-> FALSE,
   again |-> FALSE, before |-> <<>>, mask |-> <<>>, removed |-> FALSE, grid |-> NoGrid]

FqNone == [W |-> <<>>, s |-> Zero, L |-> 0, out |-> <<>>, grad |-> <<>>, done |-> FALSE]

(* ------------------------------ pruning -------------------------------- *)
\* the characters of a module's hierarchical name
NameChars(m) ==
  IF m = "fc1" THEN <<"f", "c", "1">>
  ELSE IF m = "fc2" THEN <<"f", "c", "2">>
  ELSE IF m = "act" THEN <<"a", "c", "t">>
  ELSE <<>>

\* target in name (substring test on strings)
Contains(name, target) ==
  \E i \in 0..(Len(name) - Len(target)) :
    \A j \in 1..Len(target) : name[i + j] = target[j]

TargetChoices ==
  {{<<"f", "c">>}, {<<"1">>, <<"a", "c", "t">>}, {<<"c">>}, {<<"2">>, <<"x">>}, {<<"a">>}}

NameMatchesExact(m, targets) == NameChars(m) \in targets

\* any(target in name for target in target_module_names)
NameMatches(m, targets) == \E t \in targets : Contains(NameChars(m), t)

Methods == {"l1_unstructured", "random_unstructured", "l2_structured"}

SupportedMethods == {"l1_unstructured", "random_unstructured"}

AmountChoices == 0..AmountDen

HasMask(m) == weight_mask[m] # <<>>

NParamsFloor(a, n) == (a * n) \div AmountDen

\* _compute_nparams_toprune for a float amount a/AmountDen: round(amount * n)
NParamsToPrune(a, n) == RoundHalfEven(a * n, AmountDen)

\* ranking of importance scores by topk: magnitudes ascending, NaN last
AbsLess(x, y) == ~IsNaN(x) /\ (IsNaN(y) \/ FLess(FAbs(x), FAbs(y)))

SubsetsOfSize(C, k) == {S \in SUBSET C : Cardinality(S) = k}

AnyUnits(t, C, k) == SubsetsOfSize(C, k)

\* torch.topk(abs(t), k, largest=False).indices over the candidates C:
\* every set of k candidates none of which ranks above a candidate left out
\* (which of several equal magnitudes is taken is up to topk)
SmallestUnits(t, C, k) ==
  {S \in SubsetsOfSize(C, k) : \A i \in S : \A j \in C \ S : ~AbsLess(t[j], t[i])}

\* the units one pruning call masks out among the candidates C
PrunedUnits(method, t, C, k) ==
  IF k = 0 THEN {{}}
  ELSE IF method = "l1_unstructured" THEN SmallestUnits(t, C, k)
  ELSE AnyUnits(t, C, k)

Ones(n) == [i \in 1..n |-> 1]

ApplyMaskDrop(orig, mask) ==
  LET keep == {i \in 1..Len(orig) : mask[i] = 1}
      RECURSIVE Build(_)
      Build(i) == IF i > Len(orig) THEN <<>>
                  ELSE IF i \in keep THEN <<orig[i]>> \o Build(i + 1) ELSE Build(i + 1)
  IN Build(1)

\* BasePruningMethod.apply_mask: weight_orig * weight_mask
ApplyMask(orig, mask) == [i \in 1..Len(orig) |-> FMul(orig[i], FromInt(mask[i]))]

\* the mask in force before a pruning call: the stored mask, or all ones
DefaultMask(m) == IF HasMask(m) THEN weight_mask[m] ELSE Ones(Len(weight[m]))

\* the candidates of a pruning call: the units not yet masked out
Candidates(m) == {i \in 1..Len(weight[m]) : DefaultMask(m)[i] = 1}

NewMask(m, S) == [i \in 1..Len(weight[m]) |-> IF i \in S THEN 0 ELSE DefaultMask(m)[i]]

OrigOf(m) == IF HasMask(m) THEN weight_orig[m] ELSE weight[m]

\* prune.l1_unstructured / prune.random_unstructured on module m, masking S
PruneEffect(m, S) ==
  /\ weight_orig' = [weight_orig EXCEPT ![m] = OrigOf(m)]
  /\ weight_mask' = [weight_mask EXCEPT ![m] = NewMask(m, S)]
  /\ weight' = [weight EXCEPT ![m] = ApplyMask(OrigOf(m), NewMask(m, S))]

\* the module was last pruned, by the call before, with the same amount and method
PrunedBefore(m, a, method) ==
  lastApply.valid /\ lastApply.module = m /\ lastApply.amount = a /\ lastApply.method = method

\* the scale and level count of a custom_quantize_layer call on m that has just returned
GridOf(m) ==
  IF ret.op = "quantize" /\ ret.kind = "return" /\ ret.arg = m
    THEN [s |-> qf.s, L |-> qf.num_levels] ELSE NoGrid

ApplyRecord(m, a, method, S) ==
  [valid |-> TRUE, module |-> m, amount |-> a, method |-> method, fresh |-> ~HasMask(m),
   again |-> PrunedBefore(m, a, method), before |-> weight[m], mask |-> NewMask(m, S),
   removed |-> FALSE, grid |-> GridOf(m)]

\* a pruning call that raised: its arguments and the weight it found
ApplyFailed(m, method) ==
  [ApplyNone EXCEPT !.module = m, !.method = method, !.before = weight[m]]

RemoveRaisesNever(m) == FALSE

\* prune.remove(module, "weight") raises ValueError on a module that is not pruned
RemoveRaises(m) == ~HasMask(m)

\* prune.remove(module, "weight") on a pruned module
RemoveEffect(m) ==
  /\ weight' = [weight EXCEPT ![m] = ApplyMask(weight_orig[m], weight_mask[m])]
  /\ weight_orig' = [weight_orig EXCEPT ![m] = <<>>]
  /\ weight_mask' = [weight_mask EXCEPT ![m] = <<>>]

Returned(op, m) == [op |-> op, arg |-> m, kind |-> "return", value |-> m, exc |-> "", printed |-> FALSE]

Raised(op, m, e) == [op |-> op, arg |-> m, kind |-> "raise", value |-> "", exc |-> e, printed |-> FALSE]

(* ----------------------- training and evaluation ----------------------- *)
\* None
PyNone == <<0, -1>>

\* a batch: the size of its first dimension and whether it has a 'label' field
BatchChoices ==
  {[n |-> k, label |-> TRUE] : k \in 1..MaxBatchSize} \cup {[n |-> 1, label |-> FALSE]}

\* a DataLoader, by the batches one pass over it yields
Loaders == UNION {[1..k -> BatchChoices] : k \in 0..MaxBatches}

\* the fields of a batch (a dict of tensors)
FieldsOf(batch) ==
  {"input_ids", "attention_mask"} \cup (IF batch.label THEN {"label"} ELSE {})

LabelMissingIgnored(batch) == FALSE

\* batch['label'] raises KeyError
LabelMissing(batch) == "label" \notin FieldsOf(batch)

InputsAll(batch) == FieldsOf(batch)

\* {k: batch[k].to(device) for k in batch if k != 'label'}
Inputs(batch) == {k \in FieldsOf(batch) : k # "label"}

\* a logits tensor of a batch of n samples, by what the code computes from it
\* and the targets: loss is loss_fn(logits, targets).item() (0 or 1, as for
\* LossChoices) and correct is (argmax(logits, dim=-1) == targets).sum().item()
LogitsChoices(n) == {[loss |-> l, correct |-> c] : l \in LossChoices, c \in 0..n}

NoLogits == [loss |-> 0, correct |-> 0]

\* another tensor of the same batch, held by a mapping next to its logits
OtherTensor(lg, n) == [loss |-> 1 - lg.loss, correct |-> n - lg.correct]

\* a bare tensor returned by the model
TensorOutput(lg) == [raises |-> FALSE, isdict |-> FALSE, items |-> <<>>, tensor |-> lg]

\* a mapping returned by the model, with a 'logits' entry after another entry
DictOutput(lg, n) ==
  [raises |-> FALSE, isdict |-> TRUE,
   items |-> <<<<"hidden_states", OtherTensor(lg, n)>>, <<"logits", lg>>>>,
   tensor |-> NoLogits]

NoOutput == TensorOutput(NoLogits)

\* what model(**inputs) does on one batch of n samples: it raises, or it
\* returns a mapping or a bare tensor
ForwardOuts(n) ==
  {[NoOutput EXCEPT !.raises = TRUE]}
    \cup {DictOutput(lg, n) : lg \in LogitsChoices(n)}
    \cup {TensorOutput(lg) : lg \in LogitsChoices(n)}

\* output[key]
DictGet(items, key) ==
  LET i == CHOOSE j \in 1..Len(items) : items[j][1] = key IN items[i][2]

LogitsOfFirst(output) == IF output.isdict THEN output.items[1][2] ELSE output.tensor

\* output['logits'] if isinstance(output, dict) else output
LogitsOf(output) == IF output.isdict THEN DictGet(output.items, "logits") ELSE output.tensor

\* the last call model(**inputs): its keyword arguments, the mode of the model
\* and what it gave
FwdNone == [called |-> FALSE, inputs |-> {}, mode |-> "", output |-> NoOutput]

ForwardCall(batch, mode, output) ==
  [called |-> TRUE, inputs |-> Inputs(batch), mode |-> mode, output |-> output]

ZeroGradKeep(g) == g

\* optimizer.zero_grad(): the number of batches whose gradient .grad holds
ZeroGrad(g) == 0

\* loss.backward() adds the gradient of the batch to .grad
Backward(g) == g + 1

\* optimizer.step(): the parameters move (to their next version) when .grad
\* holds a gradient
AdamStep(params, g) == IF g = 0 THEN params ELSE params + 1

NoGradParamsStepped(params) == params + 1

\* the parameters after the batch body of evaluate_model, which runs under
\* torch.no_grad() and has no backward() and no optimizer
NoGradParams(params) == params

SchedulerStepTwice(n, scheduler) == IF scheduler THEN n + 2 ELSE n

\* if scheduler is not None: scheduler.step()
SchedulerStep(n, scheduler) == IF scheduler THEN n + 1 ELSE n

\* the locals of evaluate_model; variant is "training" for training.py and
\* "evaluation" for evaluation.py
EvIdle ==
  [active |-> FALSE, variant |-> "", loader |-> <<>>, loss_given |-> FALSE, idx |-> 0,
   total_loss |-> 0, total_correct |-> 0, total_samples |-> 0, num_batches |-> 0,
   outcome |-> "none", exc |-> "", avg_loss |-> PyNone, accuracy |-> PyNone]

\* the locals of train_model, the mode of the model, the steps of the
\* optimizer and of the scheduler, the frame of evaluate_model, the gradient
\* and the version of the parameters, and the last forward call
TrIdle ==
  [fn |-> "none", at |-> "idle", train_loader |-> <<>>, valid_given |-> FALSE,
   valid_loader |-> <<>>, epochs |-> 0, scheduler |-> FALSE, epoch |-> 0, idx |-> 0,
   total_train_loss |-> 0, num_batches |-> 0, train_loss_history |-> <<>>,
   valid_metrics_history |-> <<>>, mode |-> "train", opt_steps |-> 0, sched_steps |-> 0,
   exc |-> "", ev |-> EvIdle, grad |-> 0, backward_calls |-> 0, step_grad |-> 0,
   params |-> 0, fwd |-> FwdNone]

\* a / b of Python: ZeroDivisionError when b is 0
DivRaises(b) == b = 0

PyDiv(a, b) == Norm(a, b)

RecordEpochOnly(history, x) == <<x>>

\* history.append(x)
RecordEpoch(history, x) == Append(history, x)

\* total_correct / total_samples if total_samples > 0 else 0.0
AccuracyGuarded(correct, total) == IF total > 0 THEN PyDiv(correct, total) ELSE Zero

\* evaluate_model up to the loop: model.to(device), model.eval(), the counters
EvStart(variant, loader, loss_given) ==
  [EvIdle EXCEPT !.active = TRUE, !.variant = variant, !.loader = loader,
                 !.loss_given = loss_given, !.idx = 1]

(* ------------------------------- Init ---------------------------------- *)
WeightValues == {FromInt(i) : i \in -MaxW..MaxW}

\* the operators act on each element or on the ranking of the magnitudes, so the
\* initial tensors are taken up to the order of their elements
Fc1Choices ==
  {w \in [1..WLen -> WeightValues] : \A i \in 1..(WLen - 1) : FLeq(w[i], w[i + 1])}

InitModel(w1) ==
  /\ weight = [m \in Mods |-> IF m = "fc1" THEN w1 ELSE IF m = "fc2" THEN Fc2Init ELSE <<>>]
  /\ bias = BiasInit
  /\ weight_orig = [m \in Mods |-> <<>>]
  /\ weight_mask = [m \in Mods |-> <<>>]
  /\ pc = "idle"
  /\ qf = QfIdle
  /\ pf = PfIdle
  /\ ret = RetNone
  /\ lastApply = ApplyNone
  /\ ncalls = 0
  /\ init0 = [shape |-> [m \in Mods |-> Len(weight[m])], bias |-> bias]

Init ==
  /\ \E w1 \in Fc1Choices : InitModel(w1)
  /\ fq = FqNone
  /\ tr = TrIdle

CanCall == pc = "idle" /\ ncalls < MaxCalls

\* the mask of the finalized pruning of m by the calls just before, if any
FinalizedMask(m) ==
  IF lastApply.valid /\ lastApply.module = m /\ lastApply.removed THEN lastApply.mask ELSE <<>>

(* ---------------- actions of custom_quantize_layer --------------------- *)
\* the call, up to the loop head: weight = layer.weight.data.clone(); s = ...;
\* optimizer, loss function, kl_losses, qmin, qmax
CallQuantize(m, L, lr, E) ==
  /\ CanCall
  /\ ncalls' = ncalls + 1
  /\ lastApply' = ApplyNone
  /\ pf' = PfIdle
  /\ IF ~LayerWeightReadable(m)
       THEN /\ ret' = Raised("quantize", m, "AttributeError")
            /\ qf' = QfIdle
            /\ pc' = "idle"
       ELSE /\ ret' = [RetNone EXCEPT !.op = "quantize", !.arg = m, !.kind = "running"]
            /\ qf' = [QfIdle EXCEPT !.layer = m, !.num_levels = L, !.lr = lr, !.epochs = E,
                                    !.weight = weight[m], !.s = InitScale(weight[m], L),
                                    !.s0 = InitScale(weight[m], L),
                                    !.w0 = weight[m], !.b0 = bias[m],
                                    !.prunedMask = FinalizedMask(m)]
            /\ pc' = "q_loop"
  /\ UNCHANGED <<weight, bias, weight_orig, weight_mask, init0, fq, tr>>

\* optimizer.zero_grad(); quantized_weights = ...; original_weight = clone;
\* layer.weight.data.copy_(quantized_weights)
QEpochBegin ==
  /\ pc = "q_loop"
  /\ LoopContinues(qf.epoch, qf.epochs, qf.loss)
  /\ LET q == FakeQuant(qf.weight, qf.s, qf.num_levels)
     IN /\ qf' = [qf EXCEPT !.quantized_weights = q, !.original_weight = weight[qf.layer],
                            !.writes = @ + 1]
        /\ weight' = [weight EXCEPT ![qf.layer] = q]
  /\ pc' = "q_fwd"
  /\ UNCHANGED <<bias, weight_orig, weight_mask, pf, ret, lastApply, ncalls, init0, fq, tr>>

\* the weight a forward pass of module m computes with: a pruned module's
\* forward pre-hook first recomputes weight = weight_orig * weight_mask
ForwardWeight(m) == IF HasMask(m) THEN ApplyMask(weight_orig[m], weight_mask[m]) ELSE weight[m]

\* full_output (no_grad, from the cloned weight), quantized_output = layer(x),
\* the two distributions, loss, loss.backward(), optimizer.step()
QEpochForward(loss, g) ==
  /\ pc = "q_fwd"
  /\ weight' = [weight EXCEPT ![qf.layer] = ForwardWeight(qf.layer)]
  /\ qf' = [qf EXCEPT !.loss = loss, !.s = OptimizerStep(qf.s, ScaleGrad(g), qf.lr),
                      !.steps = @ + 1]
  /\ pc' = "q_restore"
  /\ UNCHANGED <<bias, weight_orig, weight_mask, pf, ret, lastApply, ncalls, init0, fq, tr>>

\* layer.weight.data.copy_(original_weight); kl_losses.append(loss.item()); print
QEpochEnd ==
  /\ pc = "q_restore"
  /\ weight' = [weight EXCEPT ![qf.layer] = RestoredWeight(qf.original_weight, weight[qf.layer])]
  /\ qf' = [qf EXCEPT !.writes = @ + 1, !.kl_losses = @ + 1, !.epoch = @ + 1]
  /\ pc' = "q_loop"
  /\ UNCHANGED <<bias, weight_orig, weight_mask, pf, ret, lastApply, ncalls, init0, fq, tr>>

\* after the loop: final_quantized_weights = ...; layer.weight.data.copy_(...);
\* the plot; return layer, s
QReturn ==
  /\ pc = "q_loop"
  /\ ~LoopContinues(qf.epoch, qf.epochs, qf.loss)
  /\ weight' = [weight EXCEPT ![qf.layer] = FakeQuant(qf.weight, qf.s, qf.num_levels)]
  /\ qf' = [qf EXCEPT !.writes = @ + 1]
  /\ ret' = Returned("quantize", qf.layer)
  /\ pc' = "idle"
  /\ UNCHANGED <<bias, weight_orig, weight_mask, pf, lastApply, ncalls, init0, fq, tr>>

(* ------------------------ actions of pruning --------------------------- *)
\* apply_sparse_pruning(module, amount, method)
ApplySparsePruning(m, a, method) ==
  /\ CanCall
  /\ ncalls' = ncalls + 1
  /\ qf' = QfIdle
  /\ pf' = PfIdle
  /\ IF ~HasAttrWeight(m) \/ method \notin SupportedMethods
       THEN /\ ret' = Raised("apply", m, "ValueError")
            /\ lastApply' = ApplyFailed(m, method)
            /\ UNCHANGED <<weight, weight_orig, weight_mask>>
       ELSE \E S \in PrunedUnits(method, weight[m], Candidates(m),
                                 NParamsToPrune(a, Cardinality(Candidates(m)))) :
              /\ PruneEffect(m, S)
              /\ lastApply' = ApplyRecord(m, a, method, S)
              /\ ret' = Returned("apply", m)
  /\ UNCHANGED <<bias, pc, init0, fq, tr>>

\* remove_pruning(module): prune.remove, its failure caught and printed
RemovePruning(m) ==
  /\ CanCall
  /\ ncalls' = ncalls + 1
  /\ qf' = QfIdle
  /\ pf' = PfIdle
  /\ IF ~RemoveRaises(m)
       THEN /\ RemoveEffect(m)
            /\ ret' = Returned("remove", m)
       ELSE /\ ret' = [Returned("remove", m) EXCEPT !.printed = TRUE]
            /\ UNCHANGED <<weight, weight_orig, weight_mask>>
  /\ lastApply' = IF lastApply.valid /\ lastApply.module = m
                    THEN [lastApply EXCEPT !.removed = TRUE] ELSE ApplyNone
  /\ UNCHANGED <<bias, pc, init0, fq, tr>>

\* prune_model(model, target_module_names, amount, method): the call
CallPruneModel(targets, a, method) ==
  /\ CanCall
  /\ ncalls' = ncalls + 1
  /\ qf' = QfIdle
  /\ pf' = [PfIdle EXCEPT !.op = "prune_model", !.targets = targets, !.amount = a,
                          !.method = method, !.idx = 1, !.w0 = weight, !.m0 = weight_mask]
  /\ ret' = [RetNone EXCEPT !.op = "prune_model", !.kind = "running"]
  /\ pc' = "pm_loop"
  /\ UNCHANGED <<weight, bias, weight_orig, weight_mask, lastApply, init0, fq, tr>>

PMCurrent == Names[pf.idx]

PMSelected(m) == NameMatches(m, pf.targets) /\ HasAttrWeight(m)

\* a module the condition rejects: next iteration
PMSkip ==
  /\ pc = "pm_loop"
  /\ pf.idx <= Len(Names)
  /\ ~PMSelected(PMCurrent)
  /\ pf' = [pf EXCEPT !.idx = @ + 1]
  /\ UNCHANGED <<weight, bias, weight_orig, weight_mask, pc, qf, ret, lastApply, ncalls, init0, fq, tr>>

\* a selected module: print, apply_sparse_pruning(module, amount, method)
PMApply ==
  /\ pc = "pm_loop"
  /\ pf.idx <= Len(Names)
  /\ PMSelected(PMCurrent)
  /\ IF pf.method \notin SupportedMethods
       THEN /\ ret' = Raised("prune_model", "", "ValueError")
            /\ pc' = "idle"
            /\ lastApply' = ApplyFailed(PMCurrent, pf.method)
            /\ UNCHANGED <<weight, weight_orig, weight_mask, pf>>
       ELSE \E S \in PrunedUnits(pf.method, weight[PMCurrent], Candidates(PMCurrent),
                                 NParamsToPrune(pf.amount, Cardinality(Candidates(PMCurrent)))) :
              /\ PruneEffect(PMCurrent, S)
              /\ lastApply' = ApplyRecord(PMCurrent, pf.amount, pf.method, S)
              /\ pf' = [pf EXCEPT !.pruned = @ \cup {PMCurrent},
                                  !.masks[PMCurrent] = NewMask(PMCurrent, S)]
              /\ pc' = "pm_remove"
              /\ UNCHANGED ret
  /\ UNCHANGED <<bias, qf, ncalls, init0, fq, tr>>

\* remove_pruning(module) of the same iteration
PMRemove ==
  /\ pc = "pm_remove"
  /\ IF ~RemoveRaises(PMCurrent)
       THEN /\ RemoveEffect(PMCurrent)
            /\ UNCHANGED ret
       ELSE /\ ret' = [ret EXCEPT !.printed = TRUE]
            /\ UNCHANGED <<weight, weight_orig, weight_mask>>
  /\ lastApply' = [lastApply EXCEPT !.removed = TRUE]
  /\ pf' = [pf EXCEPT !.idx = @ + 1]
  /\ pc' = "pm_loop"
  /\ UNCHANGED <<bias, qf, ncalls, init0, fq, tr>>

\* return model
PMReturn ==
  /\ pc = "pm_loop"
  /\ pf.idx > Len(Names)
  /\ ret' = [Returned("prune_model", "") EXCEPT !.printed = ret.printed]
  /\ pc' = "idle"
  /\ UNCHANGED <<weight, bias, weight_orig, weight_mask, qf, pf, lastApply, ncalls, init0, fq, tr>>

(* ------- the notebook's pruning cell: prune.global_unstructured -------- *)
\* parameters_to_prune: the nn.Linear modules in named_modules() order
LinearMods == <<"fc1", "fc2">>

LinearSet == {LinearMods[i] : i \in 1..Len(LinearMods)}

\* the units of the concatenated tensors that no mask has pruned yet
PoolCandidates == UNION {{<<m, i>> : i \in Candidates(m)} : m \in LinearSet}

\* the importance score of a unit: the current value of the module's weight
PoolScore(u) == weight[u[1]][u[2]]

AnyPooled(C, k) == SubsetsOfSize(C, k)

\* L1Unstructured.compute_mask on the concatenated scores: topk smallest magnitudes
SmallestPooled(C, k) ==
  {S \in SubsetsOfSize(C, k) : \A u \in S : \A v \in C \ S : ~AbsLess(PoolScore(v), PoolScore(u))}

GlobalUnits(a) ==
  LET k == NParamsToPrune(a, Cardinality(PoolCandidates))
  IN IF k = 0 THEN {{}} ELSE SmallestPooled(PoolCandidates, k)

\* the part of a pooled selection S that lies in module m
UnitsOf(S, m) == {i \in 1..Len(weight[m]) : <<m, i>> \in S}

\* prune.global_unstructured(parameters_to_prune, L1Unstructured, amount):
\* one pooled mask, then custom_from_mask on every module of the list
CallGlobalPrune(a) ==
  /\ CanCall
  /\ ncalls' = ncalls + 1
  /\ qf' = QfIdle
  /\ lastApply' = ApplyNone
  /\ \E S \in GlobalUnits(a) :
       /\ weight_orig' = [m \in Mods |-> IF m \in LinearSet THEN OrigOf(m) ELSE weight_orig[m]]
       /\ weight_mask' = [m \in Mods |-> IF m \in LinearSet THEN NewMask(m, UnitsOf(S, m))
                                                             ELSE weight_mask[m]]
       /\ weight' = [m \in Mods |-> IF m \in LinearSet
                                      THEN ApplyMask(OrigOf(m), NewMask(m, UnitsOf(S, m)))
                                      ELSE weight[m]]
       /\ pf' = [PfIdle EXCEPT !.op = "global", !.amount = a, !.method = "l1_unstructured",
                               !.idx = 1, !.w0 = weight, !.m0 = weight_mask,
                               !.pruned = LinearSet,
                               !.masks = [m \in Mods |-> IF m \in LinearSet
                                                           THEN NewMask(m, UnitsOf(S, m)) ELSE <<>>]]
  /\ ret' = [RetNone EXCEPT !.op = "global", !.kind = "running"]
  /\ pc' = "g_remove"
  /\ UNCHANGED <<bias, init0, fq, tr>>

\* for module, _ in parameters_to_prune: prune.remove(module, 'weight')
GRemove ==
  /\ pc = "g_remove"
  /\ pf.idx <= Len(LinearMods)
  /\ RemoveEffect(LinearMods[pf.idx])
  /\ pf' = [pf EXCEPT !.idx = @ + 1]
  /\ UNCHANGED <<bias, pc, qf, ret, lastApply, ncalls, init0, fq, tr>>

\* the end of the cell
GDone ==
  /\ pc = "g_remove"
  /\ pf.idx > Len(LinearMods)
  /\ ret' = Returned("global", "")
  /\ pc' = "idle"
  /\ UNCHANGED <<weight, bias, weight_orig, weight_mask, qf, pf, lastApply, ncalls, init0, fq, tr>>

Next ==
  \/ \E m \in DirectModules, L \in Levels, lr \in LrChoices, E \in EpochChoices : CallQuantize(m, L, lr, E)
  \/ QEpochBegin
  \/ \E loss \in LossChoices, g \in {-1, 1} : QEpochForward(loss, g)
  \/ QEpochEnd
  \/ QReturn
  \/ \E m \in DirectModules, a \in AmountChoices, method \in Methods : ApplySparsePruning(m, a, method)
  \/ \E m \in DirectModules : RemovePruning(m)
  \/ \E targets \in TargetChoices, a \in AmountChoices, method \in Methods : CallPruneModel(targets, a, method)
  \/ PMSkip
  \/ PMApply
  \/ PMRemove
  \/ PMReturn
  \/ \E a \in AmountChoices : CallGlobalPrune(a)
  \/ GRemove
  \/ GDone

Spec == Init /\ [][Next]_vars

(* --------- the fake-quantization expression on arbitrary inputs -------- *)
ScaleChoices == {Norm(n, d) : n \in 1..MaxScale, d \in 1..MaxScale}

InitFQ ==
  /\ InitModel([i \in 1..WLen |-> Zero])
  /\ \E W \in Fc1Choices, L \in Levels :
       \E s \in ScaleChoices \cup {InitScale(W, L)} :
         fq = [FqNone EXCEPT !.W = W, !.s = s, !.L = L]
  /\ tr = TrIdle

\* torch.clamp(torch.round(weight / s), qmin, qmax) * s and its derivative
FQApply ==
  /\ ~fq.done
  /\ fq' = [fq EXCEPT !.out = FakeQuant(fq.W, fq.s, fq.L),
                      !.grad = FakeQuantGrad(fq.W, fq.s, fq.L), !.done = TRUE]
  /\ UNCHANGED <<weight, bias, weight_orig, weight_mask, pc, qf, pf, ret, lastApply, ncalls, init0, tr>>

NextFQ == FQApply

SpecFQ == InitFQ /\ [][NextFQ]_vars

(* ------------------- train_model and evaluate_model -------------------- *)
\* one call of train_model or evaluate_model per run
NotStarted == tr.fn = "none"

ModelUnchanged ==
  UNCHANGED <<weight, bias, weight_orig, weight_mask, pc, qf, pf, ret, lastApply, ncalls, init0, fq>>

\* train_model(model, train_loader, valid_loader, device, epochs, lr, scheduler)
\* up to the loop head: model.to(device), model.train(), optimizer, loss_fn and
\* the two empty histories
CallTrainModel(tl, vg, vl, E, sch) ==
  /\ NotStarted
  /\ tr' = [TrIdle EXCEPT !.fn = "train_model", !.at = "t_epoch", !.train_loader = tl,
                          !.valid_given = vg, !.valid_loader = vl, !.epochs = E,
                          !.scheduler = sch, !.mode = "train", !.grad = tr.grad]
  /\ ModelUnchanged

\* for epoch in range(epochs): total_train_loss = 0.0; num_batches = 0
TEpochBegin ==
  /\ tr.fn = "train_model" /\ tr.at = "t_epoch"
  /\ tr.epoch < tr.epochs
  /\ tr' = [tr EXCEPT !.at = "t_batch", !.idx = 1, !.total_train_loss = 0, !.num_batches = 0]
  /\ ModelUnchanged

\* one batch of the training loop: inputs, targets = batch['label'],
\* optimizer.zero_grad(), output = model(**inputs), logits, loss,
\* loss.backward(), optimizer.step(), total_train_loss += loss.item(),
\* num_batches += 1
TBatch ==
  /\ tr.fn = "train_model" /\ tr.at = "t_batch"
  /\ tr.idx <= Len(tr.train_loader)
  /\ LET batch == tr.train_loader[tr.idx]
         g0 == ZeroGrad(tr.grad)
         g1 == Backward(g0)
     IN IF LabelMissing(batch)
          THEN tr' = [tr EXCEPT !.at = "raised", !.exc = "KeyError"]
          ELSE \E out \in ForwardOuts(0) :
                 IF out.raises
                   THEN tr' = [tr EXCEPT !.at = "raised", !.exc = "forward", !.grad = g0,
                                         !.fwd = ForwardCall(batch, tr.mode, out)]
                   ELSE tr' = [tr EXCEPT !.fwd = ForwardCall(batch, tr.mode, out),
                                         !.grad = g1,
                                         !.backward_calls = @ + 1,
                                         !.step_grad = g1,
                                         !.params = AdamStep(@, g1),
                                         !.opt_steps = @ + 1,
                                         !.total_train_loss = @ + LogitsOf(out).loss,
                                         !.num_batches = @ + 1,
                                         !.idx = @ + 1]
  /\ ModelUnchanged

\* after the last batch of the epoch: avg_train_loss = total_train_loss /
\* num_batches; train_loss_history.append(avg_train_loss); print
TEpochAverage ==
  /\ tr.fn = "train_model" /\ tr.at = "t_batch"
  /\ tr.idx > Len(tr.train_loader)
  /\ IF DivRaises(tr.num_batches)
       THEN tr' = [tr EXCEPT !.at = "raised", !.exc = "ZeroDivisionError"]
       ELSE tr' = [tr EXCEPT !.train_loss_history =
                               RecordEpoch(@, PyDiv(tr.total_train_loss, tr.num_batches)),
                             !.at = "t_valid"]
  /\ ModelUnchanged

\* if valid_loader is not None: the call evaluate_model(model, valid_loader,
\* device, loss_fn), up to its loop
TValidate ==
  /\ tr.fn = "train_model" /\ tr.at = "t_valid"
  /\ IF tr.valid_given
       THEN tr' = [tr EXCEPT !.at = "eval", !.mode = "eval",
                             !.ev = EvStart("training", tr.valid_loader, TRUE)]
       ELSE tr' = [tr EXCEPT !.at = "t_sched"]
  /\ ModelUnchanged

\* if scheduler is not None: scheduler.step(); then the next epoch
TScheduler ==
  /\ tr.fn = "train_model" /\ tr.at = "t_sched"
  /\ tr' = [tr EXCEPT !.sched_steps = SchedulerStep(@, tr.scheduler),
                      !.epoch = @ + 1,
                      !.at = "t_epoch"]
  /\ ModelUnchanged

\* after the last epoch: the plot, return train_loss_history, valid_metrics_history
TReturn ==
  /\ tr.fn = "train_model" /\ tr.at = "t_epoch"
  /\ tr.epoch >= tr.epochs
  /\ tr' = [tr EXCEPT !.at = "returned"]
  /\ ModelUnchanged

\* a direct call of evaluate_model, of training.py (loss_fn given or None) or
\* of evaluation.py (no loss_fn parameter), up to its loop
CallEvaluate(variant, loader, loss_given) ==
  /\ NotStarted
  /\ variant = "evaluation" => ~loss_given
  /\ tr' = [TrIdle EXCEPT !.fn = "evaluate_model", !.at = "eval", !.mode = "eval",
                          !.ev = EvStart(variant, loader, loss_given), !.grad = tr.grad]
  /\ ModelUnchanged

\* one batch of the evaluation loop, under torch.no_grad(): inputs, targets =
\* batch['label'], output = model(**inputs), logits, the loss if loss_fn is
\* given, preds, the counters
EBatch ==
  /\ tr.at = "eval" /\ tr.ev.active
  /\ tr.ev.idx <= Len(tr.ev.loader)
  /\ LET batch == tr.ev.loader[tr.ev.idx]
     IN IF LabelMissing(batch)
          THEN tr' = [tr EXCEPT !.at = "raised", !.exc = "KeyError",
                                !.ev.active = FALSE, !.ev.outcome = "raise",
                                !.ev.exc = "KeyError"]
          ELSE \E out \in ForwardOuts(batch.n) :
                 IF out.raises
                   THEN tr' = [tr EXCEPT !.at = "raised", !.exc = "forward",
                                         !.fwd = ForwardCall(batch, tr.mode, out),
                                         !.ev.active = FALSE, !.ev.outcome = "raise",
                                         !.ev.exc = "forward"]
                   ELSE tr' = [tr EXCEPT !.fwd = ForwardCall(batch, tr.mode, out),
                                         !.params = NoGradParams(@),
                                         !.ev.total_loss =
                                           IF tr.ev.loss_given THEN @ + LogitsOf(out).loss ELSE @,
                                         !.ev.total_correct = @ + LogitsOf(out).correct,
                                         !.ev.total_samples = @ + batch.n,
                                         !.ev.num_batches = @ + 1,
                                         !.ev.idx = @ + 1]
  /\ ModelUnchanged

\* whether the statements of evaluate_model after the loop divide by zero:
\* training.py has avg_loss = total_loss / num_batches if loss_fn is not None
\* else None, and a guarded accuracy; evaluation.py has accuracy = correct / total
EvalDivRaises(ev) ==
  IF ev.variant = "training"
    THEN ev.loss_given /\ DivRaises(ev.num_batches)
    ELSE DivRaises(ev.total_samples)

EvalAvgLoss(ev) ==
  IF ev.variant = "training" /\ ev.loss_given THEN PyDiv(ev.total_loss, ev.num_batches) ELSE PyNone

EvalAccuracy(ev) ==
  IF ev.variant = "training"
    THEN AccuracyGuarded(ev.total_correct, ev.total_samples)
    ELSE PyDiv(ev.total_correct, ev.total_samples)

\* after the last batch: the averages and the return of evaluate_model; in
\* train_model, valid_metrics_history.append((valid_loss, valid_accuracy)) and
\* the print that follow the call
EFinish ==
  /\ tr.at = "eval" /\ tr.ev.active
  /\ tr.ev.idx > Len(tr.ev.loader)
  /\ IF EvalDivRaises(tr.ev)
       THEN tr' = [tr EXCEPT !.at = "raised", !.exc = "ZeroDivisionError",
                             !.ev.active = FALSE, !.ev.outcome = "raise",
                             !.ev.exc = "ZeroDivisionError"]
       ELSE LET loss == EvalAvgLoss(tr.ev)
                acc == EvalAccuracy(tr.ev)
            IN tr' = [tr EXCEPT !.ev.active = FALSE, !.ev.outcome = "return",
                                !.ev.avg_loss = loss, !.ev.accuracy = acc,
                                !.valid_metrics_history =
                                  IF tr.fn = "train_model"
                                    THEN RecordEpoch(@, <<loss, acc>>) ELSE @,
                                !.at = IF tr.fn = "train_model" THEN "t_sched" ELSE "returned"]
  /\ ModelUnchanged

\* the model comes with or without a gradient left in .grad by earlier use
InitTrain ==
  /\ InitModel([i \in 1..WLen |-> Zero])
  /\ fq = FqNone
  /\ \E g \in {0, 1} : tr = [TrIdle EXCEPT !.grad = g]

NextTrain ==
  \/ NotStarted /\ \E tl \in Loaders, vg \in BOOLEAN, E \in EpochChoices, sch \in BOOLEAN :
       \E vl \in (IF vg THEN Loaders ELSE {<<>>}) : CallTrainModel(tl, vg, vl, E, sch)
  \/ TEpochBegin
  \/ TBatch
  \/ TEpochAverage
  \/ TValidate
  \/ TScheduler
  \/ TReturn
  \/ NotStarted /\ \E variant \in {"training", "evaluation"}, loader \in Loaders, lg \in BOOLEAN :
       CallEvaluate(variant, loader, lg)
  \/ EBatch
  \/ EFinish

SpecTrain == InitTrain /\ [][NextTrain]_vars

(* ============================== claims ================================= *)
QuantActive == pc \in {"q_loop", "q_fwd", "q_restore"}

QuantReturned == pc = "idle" /\ ret.op = "quantize" /\ ret.kind = "return"

Positive(a) == IsFinite(a) /\ a[1] > 0

AllZero(t) == \A i \in 1..Len(t) : t[i] = Zero

Half(a) == FMul(a, <<1, 2>>)

\* C1: when custom_quantize_layer returns, every element of layer.weight is
\* clamp(round(w0 / s), -L/2, L/2 - 1) * s for its value w0 before the call
\* and the returned scale s, hence a number k*s with k an integer of
\* [-L/2, L/2 - 1].
C1_OnGrid ==
  QuantReturned =>
    \A i \in 1..Len(weight[qf.layer]) :
      /\ weight[qf.layer][i] = FMul(QuantLevel(qf.w0[i], qf.s, qf.num_levels), qf.s)
      /\ IsFinite(weight[qf.layer][i])
      /\ \E k \in QMin(qf.num_levels)..QMax(qf.num_levels) :
           weight[qf.layer][i] = FMul(FromInt(k), qf.s)

FqErr(i) == FAbs(FSub(fq.out[i], fq.W[i]))

\* the element's W/s lies in [qmin - 1/2, qmax + 1/2]
FqInRange(i) ==
  LET x == FDiv(fq.W[i], fq.s)
  IN /\ FLeq(FSub(FromInt(QMin(fq.L)), <<1, 2>>), x)
     /\ FLeq(x, FSub(FromInt(QMax(fq.L)), <<-1, 2>>))

C3_StraightThrough ==
  (fq.done /\ Positive(fq.s)) =>
    \A i \in 1..Len(fq.W) :
      LET r == TorchRound(FDiv(fq.W[i], fq.s))
      IN /\ (FLess(FromInt(QMin(fq.L)), r) /\ FLess(r, FromInt(QMax(fq.L)))) => fq.grad[i] = 1
         /\ (FLess(r, FromInt(QMin(fq.L))) \/ FLess(FromInt(QMax(fq.L)), r)) => fq.grad[i] = 0

\* C4: the scale of custom_quantize_layer is strictly positive from its
\* initialisation, after every optimizer step of every epoch, to the final
\* overwrite and the return.
C4_ScalePositive == (QuantActive \/ QuantReturned) => (FLess(Zero, qf.s0) /\ FLess(Zero, qf.s))

\* C5: on a layer whose weight is entirely zero the initial scale is a small
\* positive epsilon, the call returns without error, and the weight is still
\* entirely zero afterwards.
C5_ZeroWeight ==
  /\ ((QuantActive \/ QuantReturned) /\ AllZero(qf.w0)) => Positive(qf.s0)
  /\ (QuantReturned /\ AllZero(qf.w0)) => AllZero(weight[qf.layer])

C7_OneOverwrite == QuantReturned => (qf.steps = qf.epochs /\ qf.writes = 1)

\* C7 as amended: the call ends after exactly `epochs` optimizer steps whatever
\* the losses; each epoch writes the layer's weight twice (quantized values,
\* then the saved values back) and the write after the last epoch leaves the
\* fake-quantized values at the final scale, 2*epochs + 1 writes in all;
\* with epochs = 0 that is one write, at the initial scale.
C7_StepsAndWrites ==
  /\ QuantActive => (qf.steps <= qf.epochs /\ qf.epoch <= qf.epochs)
  /\ QuantReturned =>
       /\ qf.steps = qf.epochs
       /\ qf.kl_losses = qf.epochs
       /\ qf.writes = 2 * qf.epochs + 1
       /\ weight[qf.layer] = FakeQuant(qf.w0, qf.s, qf.num_levels)
       /\ qf.epochs = 0 => (qf.writes = 1 /\ qf.s = InitScale(qf.w0, qf.num_levels))

C7_Witness == QuantReturned /\ qf.epochs = MaxEpochs /\ qf.loss = 0 /\ qf.writes > 1

\* C8: custom_quantize_layer on a module without a weight attribute raises
\* before any epoch runs and never returns normally.
C8_NoWeightRaises ==
  /\ (ret.op = "quantize" /\ ret.arg \notin WeightMods) =>
       (ret.kind = "raise" /\ pc = "idle" /\ qf.steps = 0 /\ qf.writes = 0)
  /\ QuantActive => qf.layer \in WeightMods

C8_Witness == ret.op = "quantize" /\ ret.arg = "act" /\ ret.kind = "raise"

AllFinite(t) == \A i \in 1..Len(t) : IsFinite(t[i])

\* a fresh module was pruned with l1_unstructured and then finalized
FinalizedL1 ==
  /\ lastApply.valid
  /\ lastApply.removed
  /\ lastApply.fresh
  /\ lastApply.method = "l1_unstructured"

ZerosAfter == {i \in 1..Len(lastApply.before) : weight[lastApply.module][i] = Zero}

MaskedUnits == {i \in 1..Len(lastApply.before) : lastApply.mask[i] = 0}

\* C10 as claimed: after l1_unstructured pruning of N elements and its
\* finalization the number of zero elements is floor(amount*N) give or take 1,
\* and no zero element had a strictly larger magnitude than a kept one.
C10_ZeroCount ==
  FinalizedL1 =>
    LET n == Len(lastApply.before)
        fl == NParamsFloor(lastApply.amount, n)
    IN /\ Cardinality(ZerosAfter) \in (fl - 1)..(fl + 1)
       /\ \A i \in ZerosAfter : \A j \in (1..n) \ ZerosAfter :
            ~FLess(FAbs(lastApply.before[j]), FAbs(lastApply.before[i]))

\* C10 as amended: the pruning masks out round(amount*N) elements (halves to
\* even), which is floor(amount*N) or floor(amount*N) + 1; the zero elements
\* afterwards are the masked ones (a masked NaN stays NaN) together with the
\* kept ones that were already zero; no masked element had a strictly larger
\* magnitude than a kept one, and kept elements are unchanged.
C10_MaskedCount ==
  FinalizedL1 =>
    LET n == Len(lastApply.before)
        fl == NParamsFloor(lastApply.amount, n)
    IN /\ Cardinality(MaskedUnits) = RoundHalfEven(lastApply.amount * n, AmountDen)
       /\ Cardinality(MaskedUnits) \in {fl, fl + 1}
       /\ ZerosAfter = {i \in MaskedUnits : ~IsNaN(lastApply.before[i])}
                         \cup {i \in 1..n : lastApply.before[i] = Zero}
       /\ \A i \in MaskedUnits : \A j \in (1..n) \ MaskedUnits :
            ~FLess(FAbs(lastApply.before[j]), FAbs(lastApply.before[i]))
       /\ \A i \in (1..n) \ MaskedUnits : weight[lastApply.module][i] = lastApply.before[i]

C10_Witness ==
  /\ FinalizedL1
  /\ ret.op = "remove"
  /\ MaskedUnits # {}
  /\ MaskedUnits # 1..Len(lastApply.before)
  /\ \E i \in MaskedUnits : lastApply.before[i] # Zero

ZeroCount(t) == Cardinality({i \in 1..Len(t) : t[i] = Zero})

\* C11: a pruning call with amount = 0 (apply_sparse_pruning, the
\* remove_pruning after it, or the same pair inside prune_model) leaves every
\* element of the module's weight as it was before the call, for either method.
C11_AmountZeroUnchanged ==
  (lastApply.valid /\ lastApply.amount = 0) => weight[lastApply.module] = lastApply.before

\* C12: pruning a weight tensor again with the same amount > 0 and the same
\* method as the pruning before (finalized or not), while it still holds
\* nonzero elements, strictly increases its number of zero elements.
C12_ReapplyPrunesMore ==
  (lastApply.valid /\ lastApply.again /\ lastApply.amount > 0
     /\ AllFinite(lastApply.before) /\ ZeroCount(lastApply.before) < Len(lastApply.before)) =>
    ZeroCount(weight[lastApply.module]) > ZeroCount(lastApply.before)

\* the submodules whose name contains a target and that have a weight
PMExpected ==
  {m \in Mods : m \in WeightMods /\ \E t \in pf.targets : Contains(NameChars(m), t)}

\* C13: prune_model prunes exactly the submodules whose name contains one of
\* the targets and that have a weight, in named_modules() order; every other
\* submodule is passed over without an error and keeps its weight values.
C13_SelectionPolicy ==
  pf.op = "prune_model" =>
    /\ pf.pruned \subseteq PMExpected
    /\ \A m \in Mods \ PMExpected : weight[m] = pf.w0[m]
    /\ \A i \in 1..Len(Names) :
         (i < pf.idx /\ Names[i] \in PMExpected) => Names[i] \in pf.pruned
    /\ ret.kind = "return" => pf.pruned = PMExpected
    /\ ret.kind = "raise" => (pf.method \notin SupportedMethods /\ PMExpected # {})

C13_Witness ==
  /\ pf.op = "prune_model"
  /\ ret.kind = "return"
  /\ pf.pruned = {"fc1"}
  /\ weight["fc1"] # pf.w0["fc1"]
  /\ weight["fc2"] = pf.w0["fc2"]
  /\ \E t \in pf.targets : Contains(NameChars("act"), t)

\* C14: when prune_model has returned, no module it pruned holds a mask or a
\* stored original, and every entry its mask pruned is zero in the weight.
C14_NoMaskAfterPruneModel ==
  (pf.op = "prune_model" /\ ret.kind = "return") =>
    \A m \in pf.pruned :
      /\ ~HasMask(m)
      /\ weight_orig[m] = <<>>
      /\ \A i \in 1..Len(weight[m]) : pf.masks[m][i] = 0 => weight[m][i] = Zero

\* a top-level remove_pruning call
RemoveStep == pc = "idle" /\ ncalls' = ncalls + 1 /\ ret'.op = "remove"

\* C15: remove_pruning on a module that carries no mask (never pruned, already
\* finalized, or without a weight) raises nothing: the failure is caught and
\* printed, the same module is returned, and no weight, mask or bias changes.
C15_RemoveOnUnpruned ==
  [][(RemoveStep /\ ~HasMask(ret'.arg)) =>
       /\ ret'.kind = "return"
       /\ ret'.value = ret'.arg
       /\ ret'.printed
       /\ UNCHANGED <<weight, weight_orig, weight_mask, bias>>]_vars

C15_Witness ==
  /\ ret.op = "remove"
  /\ ret.printed
  /\ ret.arg = "fc1"
  /\ lastApply.valid
  /\ lastApply.removed
  /\ lastApply.module = "fc1"
  /\ weight["fc1"] # lastApply.before

\* C16: apply_sparse_pruning raises ValueError, leaving the weight as it found
\* it, when the module has no weight or the method is not supported, and
\* returns only otherwise; prune_model given an unsupported method never
\* returns normally and changes no weight.
C16_ConfigErrorRaises ==
  /\ (ret.op = "apply" /\ ret.kind = "raise") =>
       (ret.exc = "ValueError" /\ weight[lastApply.module] = lastApply.before)
  /\ (ret.op = "apply" /\ ret.kind = "return") =>
       (ret.arg \in WeightMods /\ lastApply.method \in SupportedMethods)
  /\ (ret.op = "apply" /\ (ret.arg \notin WeightMods \/ lastApply.method \notin SupportedMethods)) =>
       ret.kind = "raise"
  /\ (pf.op = "prune_model" /\ pf.method \notin SupportedMethods) =>
       (ret.kind # "return" /\ weight = pf.w0)

\* the units a model-wide sweep could prune: those of the modules it pruned
\* that no earlier mask had pruned
SweepCandidates ==
  UNION {{<<m, i>> : i \in {j \in 1..Len(pf.w0[m]) : pf.m0[m] = <<>> \/ pf.m0[m][j] = 1}}
         : m \in pf.pruned}

\* the units the sweep pruned
SweepMasked == {u \in SweepCandidates : pf.masks[u[1]][u[2]] = 0}

SweepIn(U, m) == {u \in U : u[1] = m}

\* no unit of P had a strictly larger magnitude than a unit of K at the call
RankedBelow(P, K) ==
  \A u \in P : \A v \in K : ~FLess(FAbs(pf.w0[v[1]][v[2]]), FAbs(pf.w0[u[1]][u[2]]))

\* C17 as claimed: when a sweep (prune_model or the notebook's global cell) has
\* pruned several modules with the L1 criterion, the pruned entries are the
\* round(amount * total) smallest magnitudes of all the targeted entries pooled.
C17_PooledRanking ==
  (pf.op \in {"prune_model", "global"} /\ ret.kind = "return"
     /\ pf.method = "l1_unstructured" /\ Cardinality(pf.pruned) >= 2) =>
    /\ Cardinality(SweepMasked) = NParamsToPrune(pf.amount, Cardinality(SweepCandidates))
    /\ RankedBelow(SweepMasked, SweepCandidates \ SweepMasked)

\* C17 as amended: the notebook's global_unstructured cell ranks the entries of
\* all nn.Linear modules pooled and prunes round(amount * total) of them, so
\* single tensors may end with different fractions; prune_model prunes every
\* selected module on its own, round(amount * N_m) entries of each, ranked
\* within that tensor only.
C17_PooledOnlyInGlobalCell ==
  /\ pf.op = "global" =>
       /\ pf.pruned = LinearSet
       /\ Cardinality(SweepMasked) = NParamsToPrune(pf.amount, Cardinality(SweepCandidates))
       /\ RankedBelow(SweepMasked, SweepCandidates \ SweepMasked)
       /\ ret.kind = "return" => \A m \in pf.pruned : ~HasMask(m)
  /\ (pf.op = "prune_model" /\ pf.method = "l1_unstructured") =>
       \A m \in pf.pruned :
         /\ Cardinality(SweepIn(SweepMasked, m))
              = NParamsToPrune(pf.amount, Cardinality(SweepIn(SweepCandidates, m)))
         /\ RankedBelow(SweepIn(SweepMasked, m), SweepIn(SweepCandidates \ SweepMasked, m))

C17_Witness ==
  /\ pf.op = "global"
  /\ ret.kind = "return"
  /\ SweepIn(SweepMasked, "fc2") = {}
  /\ Cardinality(SweepIn(SweepMasked, "fc1")) = 2
  /\ \E u \in SweepMasked : pf.w0[u[1]][u[2]] # Zero

\* x is k*s for an integer k of [-L/2, L/2 - 1]
OnGrid(x, s, L) == IsFinite(x) /\ \E k \in QMin(L)..QMax(L) : x = FMul(FromInt(k), s)

\* every entry the mask pruned is zero and every entry is on the grid of s and L
PrunedAndOnGrid(t, mask, s, L) ==
  \A i \in 1..Len(t) : (mask[i] = 0 => t[i] = Zero) /\ OnGrid(t[i], s, L)

\* C18: after custom_quantize_layer followed by apply_sparse_pruning and
\* remove_pruning on the same layer, and after apply_sparse_pruning and
\* remove_pruning followed by custom_quantize_layer, every entry the pruning
\* masked is zero and every entry is k*s for the calibration's scale s and an
\* integer k of [-L/2, L/2 - 1].
C18_EitherOrder ==
  /\ (lastApply.valid /\ lastApply.removed /\ lastApply.fresh /\ lastApply.grid.L # 0) =>
       PrunedAndOnGrid(weight[lastApply.module], lastApply.mask, lastApply.grid.s, lastApply.grid.L)
  /\ (QuantReturned /\ qf.prunedMask # <<>>) =>
       PrunedAndOnGrid(weight[qf.layer], qf.prunedMask, qf.s, qf.num_levels)

\* C19: whenever evaluate_model (of training.py or of evaluation.py) ends, it
\* has not raised a division by zero; the accuracy it returns is
\* total_correct / total_samples (0 when no sample was seen) and lies in [0, 1];
\* and on an empty batch source it returns with accuracy exactly 0.
C19_AccuracyInRange ==
  tr.ev.outcome # "none" =>
    /\ tr.ev.exc # "ZeroDivisionError"
    /\ tr.ev.outcome = "return" =>
         /\ tr.ev.accuracy = (IF tr.ev.total_samples = 0 THEN Zero
                              ELSE Norm(tr.ev.total_correct, tr.ev.total_samples))
         /\ FLeq(Zero, tr.ev.accuracy) /\ FLeq(tr.ev.accuracy, One)
    /\ Len(tr.ev.loader) = 0 => (tr.ev.outcome = "return" /\ tr.ev.accuracy = Zero)

IsPrefix(h, g) == Len(h) <= Len(g) /\ SubSeq(g, 1, Len(h)) = h

\* the lengths of the two histories at the loop head after tr.epoch epochs
\* and on return
HistoryCounts ==
  (tr.fn = "train_model" /\ tr.at \in {"t_epoch", "returned"}) =>
    /\ Len(tr.train_loss_history) = tr.epoch
    /\ Len(tr.valid_metrics_history) = (IF tr.valid_given THEN tr.epoch ELSE 0)
    /\ \A i \in 1..Len(tr.valid_metrics_history) :
         /\ Len(tr.valid_metrics_history[i]) = 2
         /\ tr.valid_metrics_history[i][1] # PyNone
         /\ tr.valid_metrics_history[i][2] # PyNone
    /\ tr.at = "returned" => tr.epoch = tr.epochs

\* a step of train_model keeps each history or appends one entry to it
HistoryAppendOnly ==
  (tr.fn = "train_model" /\ tr'.fn = "train_model") =>
    /\ IsPrefix(tr.train_loss_history, tr'.train_loss_history)
    /\ Len(tr'.train_loss_history) <= Len(tr.train_loss_history) + 1
    /\ IsPrefix(tr.valid_metrics_history, tr'.valid_metrics_history)
    /\ Len(tr'.valid_metrics_history) <= Len(tr.valid_metrics_history) + 1

\* C20: train_model only ever appends to its two histories, one entry at a
\* time; after k completed epochs the training-loss history has k entries and
\* the validation history has k (loss, accuracy) pairs if a validation source
\* was given and none otherwise; when train_model returns, k is epochs.
C20_Histories == [][HistoryAppendOnly /\ HistoryCounts']_vars

C20_Witness ==
  /\ tr.fn = "train_model" /\ tr.at = "returned"
  /\ tr.epochs = 2 /\ tr.valid_given
  /\ Len(tr.train_loss_history) = 2
  /\ tr.train_loss_history[1] # tr.train_loss_history[2]
  /\ Len(tr.valid_metrics_history) = 2
  /\ tr.valid_metrics_history[1] # tr.valid_metrics_history[2]

InTrain == tr.fn = "train_model"

\* a step that processes one training batch to its end
TrainBatchStep == InTrain /\ tr.at = "t_batch" /\ tr'.at = "t_batch" /\ tr'.idx = tr.idx + 1

\* a step that processes one evaluation batch to its end
EvalBatchStep == tr.at = "eval" /\ tr'.at = "eval" /\ tr'.ev.idx = tr.ev.idx + 1

AllBatchesDone == tr.idx = Len(tr.train_loader) + 1 /\ tr.num_batches = Len(tr.train_loader)

\* the order of the events of one epoch
EpochOrder ==
  InTrain =>
    /\ Len(tr'.train_loss_history) # Len(tr.train_loss_history) =>
         /\ AllBatchesDone
         /\ Len(tr.train_loss_history) = tr.epoch
         /\ Len(tr.valid_metrics_history) = (IF tr.valid_given THEN tr.epoch ELSE 0)
    /\ (tr'.ev.active /\ ~tr.ev.active) =>
         /\ tr.valid_given
         /\ Len(tr.train_loss_history) = tr.epoch + 1
         /\ Len(tr.valid_metrics_history) = tr.epoch
    /\ Len(tr'.valid_metrics_history) # Len(tr.valid_metrics_history) =>
         Len(tr.train_loss_history) = tr.epoch + 1
    /\ tr'.sched_steps # tr.sched_steps =>
         /\ tr.scheduler
         /\ tr'.sched_steps = tr.sched_steps + 1
         /\ tr'.epoch = tr.epoch + 1
         /\ AllBatchesDone
         /\ Len(tr.train_loss_history) = tr.epoch + 1
         /\ Len(tr.valid_metrics_history) = (IF tr.valid_given THEN tr.epoch + 1 ELSE 0)
    /\ tr'.epoch # tr.epoch =>
         tr'.sched_steps = (IF tr.scheduler THEN tr.sched_steps + 1 ELSE tr.sched_steps)

\* the scheduler has been advanced once per completed epoch
SchedulerCount ==
  (InTrain /\ tr.at \in {"t_epoch", "t_batch", "t_valid", "eval", "t_sched", "returned"}) =>
    /\ tr.sched_steps = (IF tr.scheduler THEN tr.epoch ELSE 0)
    /\ tr.at = "returned" => tr.epoch = tr.epochs

\* C21: in every epoch of train_model the average training loss is recorded
\* after all the training batches, the evaluation starts after it and its
\* pair is recorded before the scheduler, and the scheduler is advanced (if
\* given) exactly once, at the end of the epoch; when train_model returns the
\* scheduler has been advanced epochs times.
C21_EpochOrder == [][EpochOrder /\ SchedulerCount']_vars

C21_Witness ==
  /\ InTrain /\ tr.at = "returned"
  /\ tr.scheduler /\ tr.valid_given
  /\ tr.epochs = 2 /\ tr.sched_steps = 2
  /\ Len(tr.train_loader) = 2

\* the batch a step of the training or of the evaluation loop is about to read
BatchAtHand ==
  IF tr.at = "t_batch" /\ tr.idx <= Len(tr.train_loader) THEN <<tr.train_loader[tr.idx]>>
  ELSE IF tr.at = "eval" /\ tr.ev.idx <= Len(tr.ev.loader) THEN <<tr.ev.loader[tr.ev.idx]>>
  ELSE <<>>

Aborts ==
  /\ tr.at = "raised" => tr' = tr
  /\ (BatchAtHand # <<>> /\ ~BatchAtHand[1].label /\ tr' # tr) =>
       /\ tr'.at = "raised" /\ tr'.exc = "KeyError"
       /\ tr'.idx = tr.idx /\ tr'.ev.idx = tr.ev.idx
       /\ tr'.train_loss_history = tr.train_loss_history
       /\ tr'.valid_metrics_history = tr.valid_metrics_history
  /\ (tr'.fwd # tr.fwd /\ tr'.fwd.output.raises) =>
       /\ tr'.at = "raised" /\ tr'.exc = "forward"
       /\ tr'.idx = tr.idx /\ tr'.ev.idx = tr.ev.idx
       /\ tr'.train_loss_history = tr.train_loss_history
       /\ tr'.valid_metrics_history = tr.valid_metrics_history

NothingReturnedOnError ==
  /\ tr.exc # "" => tr.at = "raised"
  /\ tr.ev.outcome = "raise" => (tr.at = "raised" /\ tr.exc = tr.ev.exc)

\* C22: in train_model and in evaluate_model a batch without a 'label' field
\* and a forward call that raises end the run with the error: the step that
\* meets them leaves the loop position and the histories as they are, nothing
\* runs after it, and the function does not return.
C22_ErrorsPropagate == [][Aborts /\ NothingReturnedOnError']_vars

C22_Witness ==
  /\ InTrain /\ tr.at = "raised" /\ tr.exc = "KeyError"
  /\ tr.idx = 2 /\ tr.opt_steps = 1 /\ tr.fwd.called
  /\ tr.train_loss_history = <<>>

\* the logits a model output holds
LogitsHeld(output) ==
  IF output.isdict
    THEN LET i == CHOOSE j \in 1..Len(output.items) : output.items[j][1] = "logits"
         IN output.items[i][2]
    ELSE output.tensor

\* C23: whether the model returns a mapping or a bare tensor, the loss added
\* to the running loss of train_model and of evaluate_model and the number of
\* correct predictions added by evaluate_model are those of the logits the
\* output holds (its 'logits' entry, or the tensor itself).
C23_BothOutputForms ==
  [][/\ TrainBatchStep =>
          tr'.total_train_loss = tr.total_train_loss + LogitsHeld(tr'.fwd.output).loss
     /\ EvalBatchStep =>
          /\ tr'.ev.total_correct = tr.ev.total_correct + LogitsHeld(tr'.fwd.output).correct
          /\ tr'.ev.total_loss = (IF tr.ev.loss_given
                                    THEN tr.ev.total_loss + LogitsHeld(tr'.fwd.output).loss
                                    ELSE tr.ev.total_loss)]_vars

C23_Witness ==
  /\ tr.fn = "evaluate_model" /\ tr.ev.variant = "evaluation" /\ tr.at = "returned"
  /\ tr.fwd.called /\ tr.fwd.output.isdict
  /\ tr.ev.total_samples = 3 /\ tr.ev.accuracy = <<2, 3>>

\* C24: every batch of train_model runs one backward pass and one optimizer
\* step, the step uses the gradient of that batch alone (the gradient is zero
\* when the backward pass starts), and no other step of train_model or
\* evaluate_model runs a backward pass or an optimizer step.
C24_OneGradientPerStep ==
  [][IF TrainBatchStep
       THEN /\ tr'.backward_calls = tr.backward_calls + 1
            /\ tr'.opt_steps = tr.opt_steps + 1
            /\ tr'.step_grad = 1
            /\ tr'.params = tr.params + 1
       ELSE /\ tr'.backward_calls = tr.backward_calls
            /\ tr'.opt_steps = tr.opt_steps]_vars

C24_Witness ==
  /\ InTrain /\ tr.at = "returned"
  /\ tr.opt_steps = 4 /\ tr.backward_calls = 4 /\ tr.step_grad = 1 /\ tr.grad = 1

\* C25: the forward call of train_model and of evaluate_model gets every
\* field of the batch but 'label', and never 'label'.
C25_LabelNotForwarded ==
  [][(tr'.fwd # tr.fwd \/ TrainBatchStep \/ EvalBatchStep) =>
       /\ BatchAtHand # <<>>
       /\ tr'.fwd.called
       /\ tr'.fwd.inputs = FieldsOf(BatchAtHand[1]) \ {"label"}
       /\ "label" \notin tr'.fwd.inputs]_vars

C25_Witness ==
  /\ InTrain /\ tr.at = "t_sched" /\ tr.valid_given
  /\ tr.fwd.called /\ tr.fwd.mode = "eval"
  /\ tr.fwd.inputs = {"input_ids", "attention_mask"}

\* C26: from its call to its end evaluate_model leaves the parameters of the
\* model as they are and runs no backward pass and no optimizer step, with
\* and without a loss function.
C26_EvalChangesNoParameter ==
  [][(tr.at = "eval" \/ tr'.at = "eval") =>
       /\ tr'.params = tr.params
       /\ tr'.grad = tr.grad
       /\ tr'.opt_steps = tr.opt_steps
       /\ tr'.backward_calls = tr.backward_calls]_vars

C26_Witness ==
  /\ InTrain /\ tr.at = "t_sched"
  /\ tr.ev.outcome = "return" /\ tr.ev.num_batches = 2
  /\ tr.params = 2

\* C27: train_model on an empty training batch source raises no
\* ZeroDivisionError and returns a training-loss history of epochs entries.
C27_EmptyTrainSourceAbsorbed ==
  (InTrain /\ tr.train_loader = <<>>) =>
    /\ tr.exc # "ZeroDivisionError"
    /\ tr.at = "returned" => Len(tr.train_loss_history) = tr.epochs

\* C28: every forward call of a training batch of train_model runs with the
\* model in training mode, also in the epochs after a validation pass.
C28_TrainModeInEveryEpoch ==
  (InTrain /\ tr.at = "t_batch" /\ tr.idx > 1) => tr.fwd.mode = "train"

\* a step in which apply_sparse_pruning on module m returns
ApplyStep(m) ==
  /\ ncalls' = ncalls + 1
  /\ ret'.op = "apply" /\ ret'.kind = "return" /\ ret'.arg = m

\* the tensor orig with the entries the mask leaves out set to zero
ZeroMasked(orig, mask) == [i \in 1..Len(orig) |-> IF mask[i] = 0 THEN Zero ELSE orig[i]]

\* C29: an apply_sparse_pruning call on a module leaves every entry masked
\* out that an earlier call (not yet removed) masked out, keeps the stored
\* original weight, and leaves as the module's weight the original weight
\* with exactly the masked entries set to zero.
C29_MaskOnlyShrinks ==
  [][\A m \in DirectModules :
       ApplyStep(m) =>
         /\ HasMask(m) =>
              /\ \A i \in 1..Len(weight_mask[m]) :
                    weight_mask[m][i] = 0 => weight_mask'[m][i] = 0
              /\ weight_orig'[m] = weight_orig[m]
         /\ ~HasMask(m) => weight_orig'[m] = weight[m]
         /\ weight'[m] = ZeroMasked(weight_orig'[m], weight_mask'[m])]_vars

\* custom_quantize_layer has just returned on a module that is pruned and not
\* finalized
QuantizedPruned == QuantReturned /\ HasMask(qf.layer)

\* C30: after custom_quantize_layer on a pruned module that is not finalized,
\* the weight the next forward pass computes with is the quantized weight
\* the call wrote, and a remove_pruning that follows leaves that weight.
C30_QuantizedValuesKept ==
  [][/\ QuantizedPruned' =>
          ApplyMask(weight_orig'[qf'.layer], weight_mask'[qf'.layer]) = weight'[qf'.layer]
     /\ (QuantizedPruned /\ ret'.op = "remove" /\ ret'.arg = qf.layer) =>
          weight'[qf.layer] = weight[qf.layer]]_vars

====
